---------------------------- MODULE Spec2Model ----------------------------
(***************************************************************************)
(* BrookIntegrateVerletStepKernel (platforms/brook): the kernel that sets  *)
(* up a BrookVerletDynamics stepper and a BrookShakeAlgorithm solver from  *)
(* a System and a VerletIntegrator (initialize) and runs one constrained   *)
(* Verlet step per call (execute).                                         *)
(*                                                                         *)
(* The kernel is modelled from BrookIntegrateVerletStepKernel.cpp.  The    *)
(* two classes it drives, BrookVerletDynamics and BrookShakeAlgorithm,     *)
(* are not part of the file; they are modelled from the design document    *)
(* (sections 4.1 to 4.3) and marked so in MODEL_MAP.json.                  *)
(*                                                                         *)
(* Numbers.  Reals are fixed-point integers:                               *)
(*   step sizes   in units of 0.5e-04 (so epsilon = 1.0e-04 is 2),         *)
(*   tolerances   in percent of d^2,                                       *)
(*   inverse mass in halves (mass 1 -> 2, mass 2 -> 1, mass <= 0 -> 0),    *)
(*   positions, velocities and forces as integer 2-vectors.                *)
(* Quotients are rounded to the nearest integer.                           *)
(***************************************************************************)
EXTENDS Integers, Sequences, FiniteSets, TLC

VARIABLES
    pc,          \* "live", "crashed", "undefined" or "destroyed"
    ctor,        \* what the constructors of the stepper and the solver store
    verlet,      \* _brookVerletDynamics: NULL or the stepper object
    shake,       \* _brookShakeAlgorithm: NULL or the solver object
    positions,   \* particle positions, owned by the compute substrate
    velocities,  \* particle velocities, owned by the compute substrate
    lastOp,      \* the operation that produced this state
    step,        \* what the last execute did (observation of the call)
    init,        \* what the last initialize was given and built
    prevInit,    \* the same for the initialize before it
    prevStep,    \* step size configured for the previous execute, 0 if none
    inits,       \* number of initialize calls so far
    calls        \* number of execute calls so far

vars == <<pc, ctor, verlet, shake, positions, velocities, lastOp, step, init,
          prevInit, prevStep, inits, calls>>

---------------------------------------------------------------------------
(* Bounds of the model *)

MaxInits == 2
MaxCalls == 2
MaxOps == 3
MaxStep == 4
MaxCap == 2

(* Program constants *)

Epsilon == 2
MaxIterations == 40

---------------------------------------------------------------------------
(* Arithmetic *)

Abs(x) == IF x < 0 THEN -x ELSE x

Sign(x) == IF x < 0 THEN -1 ELSE 1

\* n / d rounded to the nearest integer (halves away from zero), d # 0
RoundDiv(n, d) == Sign(n) * Sign(d) * ((2 * Abs(n) + Abs(d)) \div (2 * Abs(d)))

ZeroVec == <<0, 0>>

VAdd(u, v) == <<u[1] + v[1], u[2] + v[2]>>

VSub(u, v) == <<u[1] - v[1], u[2] - v[2]>>

VScale(k, v) == <<k * v[1], k * v[2]>>

VRoundDiv(v, d) == <<RoundDiv(v[1], d), RoundDiv(v[2], d)>>

Dot(u, v) == u[1] * v[1] + u[2] * v[2]

---------------------------------------------------------------------------
(* Inputs: the System, the VerletIntegrator, the substrate's arrays *)

\* a System: particle masses and constraints <<particle1, particle2, distance>>
\* (particle indices count from 0)
ValidSystems ==
    { [masses |-> <<1, 1, 1>>, constraints |-> << <<0, 1, 40>> >>],
      [masses |-> <<1, 2, 1>>, constraints |-> << <<0, 1, 40>>, <<1, 2, 40>> >>],
      [masses |-> <<0, -1, 1>>, constraints |-> << <<0, 1, 40>>, <<1, 2, 40>> >>] }

\* a self-referential pair, an index out of range, a distance that is not
\* positive
MalformedSystems ==
    { [masses |-> <<1, 1, 1>>, constraints |-> << <<0, 1, 40>>, <<1, 1, 40>> >>],
      [masses |-> <<1, 1, 1>>, constraints |-> << <<0, 3, 40>> >>],
      [masses |-> <<1, 1, 1>>, constraints |-> << <<0, 1, 0>> >>] }

Systems == ValidSystems \cup MalformedSystems

\* VerletIntegrator::getConstraintTolerance, in percent
Tolerances == {5, 25}

\* the System and the constraint tolerance an initialize is given
InitializeInputs ==
    (ValidSystems \X Tolerances) \cup (MalformedSystems \X {25})

\* VerletIntegrator::getStepSize
StepSizes == 1..MaxStep

Forces ==
    { <<ZeroVec, ZeroVec, ZeroVec>>,
      << <<1, 0>>, <<0, 1>>, <<0, -1>> >> }

\* the arrays the substrate holds when the kernel is constructed
ArrayConfigs ==
    { [positions |-> << <<0, 0>>, <<40, 0>>, <<40, 40>> >>,
       velocities |-> <<ZeroVec, ZeroVec, ZeroVec>>],
      [positions |-> << <<0, 0>>, <<48, 0>>, <<48, 36>> >>,
       velocities |-> << <<1, 0>>, ZeroVec, <<0, -1>> >>] }

NULL == [null |-> TRUE]

\* what the constructors of BrookVerletDynamics and BrookShakeAlgorithm leave
\* in a new object: the kernel does not set the step size before the first
\* execute, nor the tolerance and the cap when setup fails
Constructed ==
    { [stepSize |-> s, tolerance |-> d[1], maxIterations |-> d[2]] :
        s \in {-100, 1, MaxStep}, d \in {<<0, 0>>, <<25, MaxIterations>>} }

---------------------------------------------------------------------------
(* MassTable and ConstraintSet (section 4.1) *)

InvMass(m) == IF m > 0 THEN 2 \div m ELSE 0

InverseMasses(masses) == [i \in 1..Len(masses) |-> InvMass(masses[i])]

\* a constraint is well formed: indices in range, two distinct particles,
\* a strictly positive distance
ValidConstraint(n, pair, length) ==
    /\ pair[1] \in 0..(n - 1)
    /\ pair[2] \in 0..(n - 1)
    /\ pair[1] # pair[2]
    /\ length > 0

---------------------------------------------------------------------------
(* BrookVerletDynamics (section 4.2) *)

NewVerletDynamics(s0) == [masses |-> << >>, invMass |-> << >>, stepSize |-> s0]

VerletSetup(vd, masses) ==
    [vd EXCEPT !.masses = masses, !.invMass = InverseMasses(masses)]

GetStepSize(vd) == vd.stepSize

UpdateParameters(vd, stepSize) == [vd EXCEPT !.stepSize = stepSize]

\* velocity += stepSize * invM * force ; position += stepSize * velocity ;
\* a particle of zero inverse mass keeps its position and its velocity
Advance(vd, pos, vel, forces) ==
    LET dt == vd.stepSize
        v1 == [i \in 1..Len(pos) |->
                 IF vd.invMass[i] = 0 THEN vel[i]
                 ELSE VAdd(vel[i],
                           VRoundDiv(VScale(dt * vd.invMass[i], forces[i]), 4))]
        x1 == [i \in 1..Len(pos) |->
                 IF vd.invMass[i] = 0 THEN pos[i]
                 ELSE VAdd(pos[i], VScale(dt, v1[i]))]
    IN [positions |-> x1, velocities |-> v1]

---------------------------------------------------------------------------
(* BrookShakeAlgorithm (section 4.3) *)

\* d: the tolerance and the iteration cap a newly constructed solver holds
\* before the kernel sets them (unset, or a default)
NewShakeAlgorithm(d) ==
    [invMass |-> << >>, indices |-> << >>, lengths |-> << >>,
     tolerance |-> d.tolerance, maxIterations |-> d.maxIterations]

\* setup: fails on a malformed constraint, otherwise fills the tables
ShakeSetupFails(masses, indices, lengths) ==
    \E k \in 1..Len(indices) :
        ~ValidConstraint(Len(masses), indices[k], lengths[k])

ShakeSetup(sh, masses, indices, lengths) ==
    IF ShakeSetupFails(masses, indices, lengths) THEN sh
    ELSE [sh EXCEPT !.invMass = InverseMasses(masses),
                    !.indices = indices,
                    !.lengths = lengths]

SetShakeTolerance(sh, tolerance) == [sh EXCEPT !.tolerance = tolerance]

SetMaxIterations(sh, n) == [sh EXCEPT !.maxIterations = n]

\* |r|^2 - d^2 for the constraint <<a, b>> of length d
Violation(pos, pair, d) ==
    LET r == VSub(pos[pair[2] + 1], pos[pair[1] + 1])
    IN Dot(r, r) - d * d

\* | |r|^2 - d^2 | / d^2 <= tolerance (tolerance in percent)
Within(pos, pair, d, tolerance) ==
    Abs(Violation(pos, pair, d)) * 100 <= tolerance * d * d

AllWithin(pos, indices, lengths, tolerance) ==
    \A k \in 1..Len(indices) : Within(pos, indices[k], lengths[k], tolerance)

\* the correction of one constraint: along r_old, each particle by its own
\* inverse mass, in opposite directions; skipped when both are fixed, and
\* when the projection of r on r_old is below a quarter of d^2 (r has turned
\* away from r_old: the correction along r_old is then ill-conditioned)
CorrectOne(pos, old, invMass, pair, d) ==
    LET a == pair[1] + 1
        b == pair[2] + 1
        r == VSub(pos[b], pos[a])
        rOld == VSub(old[b], old[a])
        wsum == invMass[a] + invMass[b]
        den == 2 * Dot(r, rOld) * wsum
        viol == Violation(pos, pair, d)
    IN IF wsum = 0 \/ 4 * Dot(r, rOld) < d * d THEN pos
       ELSE [pos EXCEPT
               ![a] = VAdd(@, VRoundDiv(VScale(viol * invMass[a], rOld), den)),
               ![b] = VSub(@, VRoundDiv(VScale(viol * invMass[b], rOld), den))]

\* one pass: every constraint in order, each on the latest positions
RECURSIVE Sweep(_, _, _, _)
Sweep(pos, old, sh, k) ==
    IF k > Len(sh.indices) THEN pos
    ELSE Sweep(CorrectOne(pos, old, sh.invMass, sh.indices[k], sh.lengths[k]),
               old, sh, k + 1)

\* passes until all constraints are within tolerance at the start of a pass
\* or maxIterations passes are done; starts records, for the start of each
\* pass looked at, whether all constraints were within tolerance.  A pass
\* that moves nothing is repeated unchanged up to the cap: those passes are
\* counted without being computed again
RECURSIVE Iterate(_, _, _, _, _)
Iterate(pos, old, sh, done, starts) ==
    IF done >= sh.maxIterations
    THEN [positions |-> pos, converged |-> FALSE, passes |-> done,
          starts |-> starts]
    ELSE IF AllWithin(pos, sh.indices, sh.lengths, sh.tolerance)
    THEN [positions |-> pos, converged |-> TRUE, passes |-> done,
          starts |-> Append(starts, TRUE)]
    ELSE LET next == Sweep(pos, old, sh, 1)
         IN IF next = pos
            THEN [positions |-> pos, converged |-> FALSE,
                  passes |-> sh.maxIterations,
                  starts |-> starts \o [k \in 1..(sh.maxIterations - done)
                                          |-> FALSE]]
            ELSE Iterate(next, old, sh, done + 1, Append(starts, FALSE))

Project(old, new, sh) == Iterate(new, old, sh, 0, << >>)

\* BrookVerletDynamics::update: advance, project, write back, and correct
\* the velocities by the positional correction over the step
Update(vd, pos, vel, forces, sh) ==
    LET adv == Advance(vd, pos, vel, forces)
        prj == Project(pos, adv.positions, sh)
        v2 == [i \in 1..Len(pos) |->
                 VAdd(adv.velocities[i],
                      VRoundDiv(VSub(prj.positions[i], adv.positions[i]),
                                vd.stepSize))]
    IN [positions |-> prj.positions, velocities |-> v2,
        log |-> <<"advance", "project">>, usedStep |-> vd.stepSize,
        candidates |-> adv.positions,
        converged |-> prj.converged, passes |-> prj.passes,
        starts |-> prj.starts]

---------------------------------------------------------------------------
(* BrookIntegrateVerletStepKernel::initialize *)

\* the cap one pass too high
ShakeMaxIterations_OffByOne == MaxIterations + 1

\* setMaxIterations( 40 )
ShakeMaxIterations == MaxIterations

\* every mass read from the next particle
Masses_Shifted(sys) ==
    [ii \in 1..Len(sys.masses) |->
        sys.masses[IF ii = Len(sys.masses) THEN 1 ELSE ii + 1]]

\* masses[ii] = system.getParticleMass(ii)
Masses(sys) == [ii \in 1..Len(sys.masses) |-> sys.masses[ii]]

\* constraintIndicesVector[ii] = <<particle1, particle2>>
ConstraintIndicesVector(sys) ==
    [ii \in 1..Len(sys.constraints) |->
        <<sys.constraints[ii][1], sys.constraints[ii][2]>>]

\* the lengths pushed onto what the previous initialize left
ConstraintLengths_Appended(sys) ==
    (IF shake = NULL THEN << >> ELSE shake.lengths)
        \o [ii \in 1..Len(sys.constraints) |-> sys.constraints[ii][3]]

\* constraintLengths.push_back( distance )
ConstraintLengths(sys) ==
    [ii \in 1..Len(sys.constraints) |-> sys.constraints[ii][3]]

\* the tolerance never handed to the solver, which keeps what it was built with
ShakeTolerance_NotSet(integratorTolerance) == ctor.tolerance

\* static_cast<BrookOpenMMFloat>( integrator.getConstraintTolerance() ): the
\* tolerances of the model are values both number types hold exactly
ShakeTolerance(integratorTolerance) == integratorTolerance

\* the objects initialize leaves in _brookVerletDynamics and
\* _brookShakeAlgorithm, and whether BrookShakeAlgorithm::setup threw; both
\* pointers are assigned before setup runs, the tolerance and the iteration
\* cap are set after it
InitializeKernel(sys, integratorTolerance) ==
    LET masses == Masses(sys)
        indices == ConstraintIndicesVector(sys)
        lengths == ConstraintLengths(sys)
        vd == VerletSetup(NewVerletDynamics(ctor.stepSize), masses)
        threw == ShakeSetupFails(masses, indices, lengths)
        sh1 == ShakeSetup(NewShakeAlgorithm(ctor), masses, indices, lengths)
        sh2 == SetShakeTolerance(sh1, ShakeTolerance(integratorTolerance))
    IN [verlet |-> vd,
        shake |-> IF threw THEN sh1
                  ELSE SetMaxIterations(sh2, ShakeMaxIterations),
        threw |-> threw]

\* what the tables hold after an initialize
Tables(vd, sh) ==
    [masses |-> vd.masses, verletInvMass |-> vd.invMass,
     shakeInvMass |-> sh.invMass, indices |-> sh.indices,
     lengths |-> sh.lengths, tolerance |-> sh.tolerance,
     maxIterations |-> sh.maxIterations]

NoInit == [sys |-> [masses |-> << >>, constraints |-> << >>], tolerance |-> 0,
           threw |-> FALSE, tables |-> << >>]

NoStep == [cfg |-> 0, ready |-> FALSE, log |-> << >>, refreshed |-> FALSE,
           cachedBefore |-> 0, usedStep |-> 0, candidates |-> << >>,
           converged |-> FALSE,
           passes |-> 0, starts |-> << >>, returned |-> "void",
           prePos |-> << >>, preVel |-> << >>, prevCfg |-> 0]

Initialize(sys, integratorTolerance) ==
    /\ pc = "live"
    /\ inits < MaxInits
    /\ inits + calls < MaxOps
    /\ \E r \in {InitializeKernel(sys, integratorTolerance)} :
          /\ verlet' = r.verlet
          /\ shake' = r.shake
          /\ init' = [sys |-> sys, tolerance |-> integratorTolerance,
                      threw |-> r.threw, tables |-> Tables(r.verlet, r.shake)]
    /\ prevInit' = init
    /\ lastOp' = "initialize"
    /\ step' = NoStep
    /\ prevStep' = 0
    /\ inits' = inits + 1
    /\ UNCHANGED <<pc, ctor, positions, velocities, calls>>

---------------------------------------------------------------------------
(* BrookIntegrateVerletStepKernel::execute *)

\* the difference compared without fabs
NeedsUpdate_NoFabs(stepSize, cached) == stepSize - cached > Epsilon

\* the difference compared against twice epsilon
NeedsUpdate_Wide(stepSize, cached) == Abs(stepSize - cached) > 2 * Epsilon

\* fabs( stepSize - (double) getStepSize() ) > epsilon
NeedsUpdate(stepSize, cached) == Abs(stepSize - cached) > Epsilon

\* update run before the parameters are refreshed
ExecuteKernel_RefreshLast(stepSize, forces) ==
    LET cached == GetStepSize(verlet)
        refresh == NeedsUpdate(stepSize, cached)
        u == Update(verlet, positions, velocities, forces, shake)
        vd1 == IF refresh THEN UpdateParameters(verlet, stepSize) ELSE verlet
    IN [verlet |-> vd1, positions |-> u.positions, velocities |-> u.velocities,
        log |-> <<"compare">> \o u.log
                \o (IF refresh THEN <<"updateParameters">> ELSE << >>),
        refreshed |-> refresh,
        usedStep |-> u.usedStep, candidates |-> u.candidates,
        converged |-> u.converged, passes |-> u.passes, starts |-> u.starts,
        returned |-> "void"]

\* the body of execute on the objects the two pointers hold: compare, refresh
\* when needed, then update; execute returns void and drops what update found
ExecuteKernel(stepSize, forces) ==
    LET cached == GetStepSize(verlet)
        refresh == NeedsUpdate(stepSize, cached)
        vd1 == IF refresh THEN UpdateParameters(verlet, stepSize) ELSE verlet
        u == Update(vd1, positions, velocities, forces, shake)
    IN [verlet |-> vd1, positions |-> u.positions, velocities |-> u.velocities,
        log |-> <<"compare">>
                \o (IF refresh THEN <<"updateParameters">> ELSE << >>)
                \o u.log,
        refreshed |-> refresh,
        usedStep |-> u.usedStep, candidates |-> u.candidates,
        converged |-> u.converged, passes |-> u.passes, starts |-> u.starts,
        returned |-> "void"]

\* execute with both objects present
ExecuteReady(stepSize, forces) ==
    /\ pc = "live"
    /\ calls < MaxCalls
    /\ inits + calls < MaxOps
    /\ verlet # NULL
    /\ \E r \in {ExecuteKernel(stepSize, forces)} :
          /\ verlet' = r.verlet
          /\ positions' = r.positions
          /\ velocities' = r.velocities
          /\ step' = [cfg |-> stepSize, ready |-> TRUE, log |-> r.log,
                      refreshed |-> r.refreshed,
                      cachedBefore |-> verlet.stepSize,
                      usedStep |-> r.usedStep, candidates |-> r.candidates,
                      converged |-> r.converged,
                      passes |-> r.passes, starts |-> r.starts,
                      returned |-> r.returned, prePos |-> positions,
                      preVel |-> velocities, prevCfg |-> prevStep]
    /\ prevStep' = stepSize
    /\ lastOp' = "execute"
    /\ calls' = calls + 1
    /\ UNCHANGED <<pc, ctor, shake, init, prevInit, inits>>

\* execute before any initialize: _brookVerletDynamics is NULL and is
\* dereferenced without a check.  The behaviour is undefined: the call
\* faults, or runs on whatever the null object reads as
ExecuteNull(stepSize, forces) ==
    /\ pc = "live"
    /\ calls < MaxCalls
    /\ inits + calls < MaxOps
    /\ verlet = NULL
    /\ \/ /\ pc' = "crashed"
          /\ step' = [NoStep EXCEPT !.cfg = stepSize, !.prePos = positions,
                                    !.preVel = velocities]
          /\ UNCHANGED <<positions, velocities>>
       \/ /\ pc' = "undefined"
          /\ step' = [NoStep EXCEPT !.cfg = stepSize, !.prePos = positions,
                                    !.preVel = velocities,
                                    !.log = <<"compare", "advance", "project">>]
          /\ \E a \in ArrayConfigs :
                /\ positions' = a.positions
                /\ velocities' = a.velocities
    /\ prevStep' = stepSize
    /\ lastOp' = "execute"
    /\ calls' = calls + 1
    /\ UNCHANGED <<ctor, verlet, shake, init, prevInit, inits>>

---------------------------------------------------------------------------
(* Constructor and destructor *)

Init ==
    /\ pc = "live"
    /\ ctor \in Constructed
    /\ verlet = NULL
    /\ shake = NULL
    /\ \E a \in ArrayConfigs :
          /\ positions = a.positions
          /\ velocities = a.velocities
    /\ lastOp = "construct"
    /\ step = NoStep
    /\ init = NoInit
    /\ prevInit = NoInit
    /\ prevStep = 0
    /\ inits = 0
    /\ calls = 0

\* the two objects are deleted with the kernel; nothing of it is left to
\* observe
Destroy ==
    /\ pc = "live"
    /\ pc' = "destroyed"
    /\ verlet' = NULL
    /\ shake' = NULL
    /\ lastOp' = "destroy"
    /\ step' = NoStep
    /\ init' = NoInit
    /\ prevInit' = NoInit
    /\ prevStep' = 0
    /\ UNCHANGED <<ctor, positions, velocities, inits, calls>>

Next ==
    \/ \E in \in InitializeInputs : Initialize(in[1], in[2])
    \/ \E stepSize \in StepSizes, f \in Forces : ExecuteReady(stepSize, f)
    \/ \E stepSize \in StepSizes, f \in Forces : ExecuteNull(stepSize, f)
    \/ Destroy

Spec == Init /\ [][Next]_vars

---------------------------------------------------------------------------
(* The solver on its own: the objects initialize builds, with the iteration *)
(* cap left as configured or set to a small value, and steps run on them    *)

InitProject ==
    /\ pc = "live"
    /\ ctor = [stepSize |-> 1, tolerance |-> 0, maxIterations |-> 0]
    /\ \E sys \in ValidSystems, t \in Tolerances :
          \E r \in {InitializeKernel(sys, t)} :
             /\ verlet = r.verlet
             /\ shake \in {r.shake}
                            \cup {SetMaxIterations(r.shake, c) : c \in 1..MaxCap}
             /\ init = [sys |-> sys, tolerance |-> t, threw |-> r.threw,
                        tables |-> Tables(r.verlet, r.shake)]
    /\ \E a \in ArrayConfigs :
          /\ positions = a.positions
          /\ velocities = a.velocities
    /\ lastOp = "initialize"
    /\ step = NoStep
    /\ prevInit = NoInit
    /\ prevStep = 0
    /\ inits = 1
    /\ calls = 0

NextProject ==
    \E stepSize \in StepSizes, f \in Forces : ExecuteReady(stepSize, f)

SpecProject == InitProject /\ [][NextProject]_vars

---------------------------------------------------------------------------
(* Properties *)

InLog(e) == \E k \in 1..Len(step.log) : step.log[k] = e

\* position of event e in the log of the last execute, 0 if absent
LogIndex(e) ==
    IF InLog(e) THEN CHOOSE k \in 1..Len(step.log) : step.log[k] = e ELSE 0

\* the last operation was an execute that found both objects present
Stepped == lastOp = "execute" /\ step.ready

\* C1 as stated: a call whose configured step size differs from that of the
\* previous call by less than epsilon triggers no reconfiguration, and one
\* that differs from it by more than epsilon triggers one.
C1_PreviousCall ==
    (Stepped /\ step.prevCfg # 0) =>
        /\ (Abs(step.cfg - step.prevCfg) < Epsilon => ~InLog("updateParameters"))
        /\ (Abs(step.cfg - step.prevCfg) > Epsilon => InLog("updateParameters"))

\* C1 amended: a call whose configured step size differs from the cached step
\* size (the value the stepper holds when the call starts) by at most epsilon
\* triggers no reconfiguration and leaves the cache as it was; a call whose
\* configured step size differs from it by more than epsilon triggers a
\* reconfiguration before the Verlet advance of that call.
C1_CachedStepSize ==
    Stepped =>
        /\ (Abs(step.cfg - step.cachedBefore) <= Epsilon =>
               /\ ~InLog("updateParameters")
               /\ verlet.stepSize = step.cachedBefore)
        /\ (Abs(step.cfg - step.cachedBefore) > Epsilon =>
               /\ InLog("updateParameters")
               /\ LogIndex("updateParameters") < LogIndex("advance"))

\* a reconfiguration although the step size moved by less than epsilon since
\* the previous call (the cache had stayed behind)
C1_Witness ==
    /\ Stepped
    /\ step.prevCfg # 0
    /\ Abs(step.cfg - step.prevCfg) < Epsilon
    /\ InLog("updateParameters")
    /\ LogIndex("updateParameters") < LogIndex("advance")

\* C2: after an initialize that failed on a malformed constraint (index out
\* of range, distance not positive, or particleA = particleB) no later
\* execute performs a Verlet advance or a SHAKE projection.
C2_FailedInitializeBlocksSteps ==
    (lastOp = "execute" /\ inits > 0 /\ init.threw) =>
        (~InLog("advance") /\ ~InLog("project"))

\* C3: an execute whose SHAKE projection used up its passes without all
\* constraints within tolerance reports the non-convergence to its caller.
C3_NonConvergenceReported ==
    (Stepped /\ ~init.threw /\ ~step.converged) => step.returned # "void"

\* C4: whenever the projection of a step reports converged, every constraint
\* of the ConstraintSet, and so every constraint of the System given to
\* initialize, is within the integrator's constraint tolerance in the
\* positions the step leaves.
C4_ConvergedWithinTolerance ==
    (Stepped /\ step.converged) =>
        /\ AllWithin(positions, shake.indices, shake.lengths, shake.tolerance)
        /\ ~init.threw =>
              \A k \in 1..Len(init.sys.constraints) :
                  Within(positions,
                         <<init.sys.constraints[k][1], init.sys.constraints[k][2]>>,
                         init.sys.constraints[k][3], init.tolerance)

\* a converged step on two constraints sharing a particle that needed at
\* least one correction pass
C4_Witness ==
    /\ Stepped
    /\ ~init.threw
    /\ step.converged
    /\ step.passes > 0
    /\ Len(init.sys.constraints) = 2
    /\ init.tolerance = 5

\* C5: a particle whose mass is <= 0 has after execute the position and the
\* velocity it had before, whatever the forces, the step size and the
\* constraints it takes part in.
C5_FixedParticlesUnchanged ==
    Stepped =>
        \A i \in 1..Len(init.sys.masses) :
            init.sys.masses[i] <= 0 =>
                /\ positions[i] = step.prePos[i]
                /\ velocities[i] = step.preVel[i]

\* a step on the system with two fixed particles, constrained to each other
\* and to a free one, with a nonzero velocity on a fixed particle, in which
\* the free particle moved
C5_Witness ==
    /\ Stepped
    /\ init.sys.masses = <<0, -1, 1>>
    /\ step.preVel[1] # ZeroVec
    /\ positions[3] # step.prePos[3]
    /\ positions[1] = step.prePos[1]

\* C6: the projection performs at most maxIterations passes (40 as initialize
\* configures it), stops at the first pass at whose start all constraints are
\* within tolerance, and with maxIterations = 1 and the constraints not all
\* within tolerance at the start reports converged = false after one pass.
C6_BoundedPasses ==
    Stepped =>
        /\ step.passes <= shake.maxIterations
        /\ (shake.maxIterations = init.tables.maxIterations =>
               step.passes <= MaxIterations)
        /\ step.converged =>
              /\ Len(step.starts) = step.passes + 1
              /\ \A k \in 1..Len(step.starts) :
                    step.starts[k] = (k = Len(step.starts))
        /\ ~step.converged =>
              /\ step.passes = shake.maxIterations
              /\ Len(step.starts) = step.passes
              /\ \A k \in 1..Len(step.starts) : ~step.starts[k]
        /\ Len(step.starts) > 0 =>
              step.starts[1] = AllWithin(step.candidates, shake.indices,
                                         shake.lengths, shake.tolerance)
        /\ (/\ shake.maxIterations = 1
            /\ ~AllWithin(step.candidates, shake.indices, shake.lengths,
                          shake.tolerance)) =>
              (~step.converged /\ step.passes = 1)

\* a step with maxIterations = 1 on two coupled constraints not within
\* tolerance at the start: one pass, not converged
C6_Witness ==
    /\ Stepped
    /\ shake.maxIterations = 1
    /\ Len(shake.indices) = 2
    /\ ~AllWithin(step.candidates, shake.indices, shake.lengths, shake.tolerance)
    /\ step.passes = 1
    /\ ~step.converged
    /\ positions # step.candidates

\* C7: an initialize given the inputs of the initialize before it leaves the
\* tables, the tolerance and the iteration cap that one left; nothing is
\* appended or reordered.
C7_InitializeIdempotent ==
    (/\ lastOp = "initialize"
     /\ inits >= 2
     /\ init.sys = prevInit.sys
     /\ init.tolerance = prevInit.tolerance) =>
        /\ init.tables = prevInit.tables
        /\ init.tables.masses = init.sys.masses
        /\ ~init.threw =>
              /\ Len(init.tables.indices) = Len(init.sys.constraints)
              /\ Len(init.tables.lengths) = Len(init.sys.constraints)
              /\ \A k \in 1..Len(init.sys.constraints) :
                    /\ init.tables.indices[k] = <<init.sys.constraints[k][1],
                                                  init.sys.constraints[k][2]>>
                    /\ init.tables.lengths[k] = init.sys.constraints[k][3]
              /\ init.tables.tolerance = init.tolerance
              /\ init.tables.maxIterations = MaxIterations

\* a second initialize with the inputs of the first, two constraints, after
\* an execute in between
C7_Witness ==
    /\ lastOp = "initialize"
    /\ inits = 2
    /\ calls = 1
    /\ init.sys = prevInit.sys
    /\ init.tolerance = prevInit.tolerance
    /\ ~init.threw
    /\ Len(init.tables.indices) = 2

\* C8: in every execute the step-size comparison comes first, the refresh
\* (when triggered) next, then the Verlet advance, then the SHAKE projection,
\* each once; a refresh is never after the advance, which therefore runs with
\* the refreshed step size.
C8_StepOrder ==
    Stepped =>
        /\ step.log \in { <<"compare", "advance", "project">>,
                          <<"compare", "updateParameters", "advance", "project">> }
        /\ InLog("updateParameters") => step.usedStep = step.cfg
        /\ ~InLog("updateParameters") => step.usedStep = step.cachedBefore

\* an execute that refreshed the step size and then advanced with it
C8_Witness ==
    /\ Stepped
    /\ step.log = <<"compare", "updateParameters", "advance", "project">>
    /\ step.usedStep = step.cfg
    /\ step.usedStep # step.cachedBefore

\* C9: a step is executed only when the stepper and the solver exist, and
\* every execute leaves the controller able to execute again.
C9_StepOnlyWhenReady ==
    lastOp = "execute" => (step.ready /\ pc = "live")

\* C10: the step size the Verlet advance of a call uses is the cached one and
\* differs from the step size configured for the call by at most epsilon; the
\* comparison is made in every call, the cache becomes exactly the configured
\* value when the absolute difference exceeds epsilon, and is left unchanged
\* otherwise.
C10_CacheWithinEpsilon ==
    Stepped =>
        /\ step.log[1] = "compare"
        /\ step.usedStep = verlet.stepSize
        /\ Abs(step.usedStep - step.cfg) <= Epsilon
        /\ verlet.stepSize =
              IF Abs(step.cfg - step.cachedBefore) > Epsilon
              THEN step.cfg ELSE step.cachedBefore

\* the first execute after an initialize, the step size the constructor left
\* within epsilon of the configured one and different from it: no refresh
C10_Witness ==
    /\ Stepped
    /\ step.prevCfg = 0
    /\ step.cachedBefore = ctor.stepSize
    /\ step.usedStep # step.cfg
    /\ ~InLog("updateParameters")

===========================================================================
